---------------------------- MODULE Spec2Model ----------------------------
(***************************************************************************)
(* Model of client/analyze-latency.py: the latency analysis script of the  *)
(* WebSocketNotificationService repository.                                *)
(*                                                                         *)
(* A DataFrame is a record [loaded, hasChat, rows]; a row is a record      *)
(* [Timestamp, Latency, ChatID].  Latencies and timestamps are integers    *)
(* (milliseconds); every derived float (mean, quantile, percentage) is an  *)
(* exact fraction [kind, num, den] in lowest terms, or NaN / +-inf where   *)
(* numpy produces them.  An empty cell of the 'Chat ID' column is NoChat.  *)
(* Rendering (matplotlib) is outside the model: a plot_* step records the  *)
(* numeric series the plot is drawn from.  The standard deviation line of  *)
(* print_statistics (a square root) is not modelled.                       *)
(***************************************************************************)
EXTENDS Integers, Sequences, FiniteSets

VARIABLES
    argc,        \* len(sys.argv)
    files,       \* what each file argument holds on disk
    df,          \* a2p_df / p2p_df: the loaded DataFrame, None before/without load
    pc,          \* position in main (or in a single call of one function)
    summary,     \* per dataset: the statistics printed by print_statistics
    distribution,\* per dataset: the bucket lines printed by print_statistics
    histogram,   \* per dataset: the reference lines of plot_histogram
    series,      \* per dataset: the series drawn by plot_time_series
    groups,      \* per dataset: the boxes drawn by plot_chat_distribution
    comparison,  \* the comparison line printed by main
    chart,       \* the key-metric bars drawn by plot_comparison
    error,       \* the exception that ended the run, "" if none
    exit_status  \* process exit status, -1 while running

vars == <<argc, files, df, pc, summary, distribution, histogram, series,
          groups, comparison, chart, error, exit_status>>

Datasets == {"a2p", "p2p"}

(***************************************************************************)
(* Bounds of the model.                                                    *)
(***************************************************************************)
MaxRows  == 2   \* rows of a file in a run of main
MaxLen   == 4   \* rows of a file handed to print_statistics alone
MaxExtra == 2   \* plot_time_series alone: rows within window -+ MaxExtra
MaxStep  == 3   \* plot_time_series alone: latency patterns
MaxChats == 2   \* plot_chat_distribution alone: distinct chat ids
MaxGroupRows == 3  \* plot_chat_distribution alone: rows of the file

(***************************************************************************)
(* Floats.                                                                 *)
(***************************************************************************)
Abs(x) == IF x < 0 THEN -x ELSE x

RECURSIVE GCD(_, _)
GCD(a, b) == IF b = 0 THEN a ELSE GCD(b, a % b)

\* the float n/d, d > 0, in lowest terms
Num(n, d) ==
    LET g == GCD(Abs(n), d)
    IN  [kind |-> "num", num |-> n \div g, den |-> d \div g]

NaN == [kind |-> "nan", num |-> 0, den |-> 1]
Inf(sign) == [kind |-> "inf", num |-> sign, den |-> 1]

\* a < b on floats; any comparison with NaN is false
FLess(a, b) ==
    CASE a.kind = "nan" \/ b.kind = "nan" -> FALSE
      [] a.kind = "inf" /\ b.kind = "inf" -> a.num < b.num
      [] a.kind = "inf" -> a.num < 0
      [] b.kind = "inf" -> b.num > 0
      [] OTHER -> a.num * b.den < b.num * a.den

FSub(a, b) ==
    IF a.kind = "num" /\ b.kind = "num"
    THEN Num(a.num * b.den - b.num * a.den, a.den * b.den)
    ELSE NaN

FAbs(a) == IF a.kind = "nan" THEN NaN ELSE [a EXCEPT !.num = Abs(a.num)]

\* a / b on numpy floats: division by zero gives nan or +-inf, not an exception
FDiv(a, b) ==
    CASE a.kind # "num" \/ b.kind # "num" -> NaN
      [] b.num = 0 ->
            IF a.num = 0 THEN NaN ELSE Inf(IF a.num > 0 THEN 1 ELSE -1)
      [] b.num > 0 -> Num(a.num * b.den, a.den * b.num)
      [] OTHER -> Num(-(a.num * b.den), a.den * (-b.num))

FMulInt(a, k) == IF a.kind = "num" THEN Num(a.num * k, a.den) ELSE a

\* Python's max(a, b): a unless b > a
PyMax(a, b) == IF FLess(a, b) THEN b ELSE a

(***************************************************************************)
(* DataFrames.                                                             *)
(***************************************************************************)
NoChat == 0

None == [loaded |-> FALSE, hasChat |-> FALSE, rows |-> <<>>]

Row(t, l, c) == [Timestamp |-> t, Latency |-> l, ChatID |-> c]

\* df['Latency (ms)']
LatencyColumn(d) == [i \in 1..Len(d.rows) |-> d.rows[i].Latency]

\* s[from] + .. + s[to]
RECURSIVE RangeSum(_, _, _)
RangeSum(s, from, to) ==
    IF from > to THEN 0
    ELSE IF from = to THEN s[from]
    ELSE LET mid == (from + to) \div 2
         IN  RangeSum(s, from, mid) + RangeSum(s, mid + 1, to)

SeqSum(s) == RangeSum(s, 1, Len(s))

\* the values of s in ascending order: position k holds the value v with
\* fewer than k values below it and at least k values not above it
SortAsc(s) ==
    LET n == Len(s)
        Below(v)    == Cardinality({j \in 1..n : s[j] < v})
        NotAbove(v) == Cardinality({j \in 1..n : s[j] <= v})
    IN  [k \in 1..n |->
            CHOOSE v \in {s[j] : j \in 1..n} : Below(v) < k /\ k <= NotAbove(v)]
        \o <<>>

(***************************************************************************)
(* pandas reductions over a column (a sequence of integers).               *)
(***************************************************************************)
\* Series.mean(): NaN over an empty column
Mean(lat) == IF Len(lat) = 0 THEN NaN ELSE Num(SeqSum(lat), Len(lat))

\* Series.min() / Series.max()
Min(lat) ==
    IF Len(lat) = 0 THEN NaN
    ELSE Num(CHOOSE x \in {lat[i] : i \in 1..Len(lat)} :
                \A i \in 1..Len(lat) : x <= lat[i], 1)

Max(lat) ==
    IF Len(lat) = 0 THEN NaN
    ELSE Num(CHOOSE x \in {lat[i] : i \in 1..Len(lat)} :
                \A i \in 1..Len(lat) : x >= lat[i], 1)

\* Series.median(): the middle value, or the mean of the two middle values
Median(lat) ==
    LET n == Len(lat)
        s == SortAsc(lat)
    IN  IF n = 0 THEN NaN
        ELSE IF n % 2 = 1 THEN Num(s[(n + 1) \div 2], 1)
        ELSE Num(s[n \div 2] + s[n \div 2 + 1], 2)

\* interpolation='higher': the upper of the two positions alone
QuantileBoundsHigher(p, n) ==
    LET r100 == p * (n - 1)
        lo   == r100 \div 100
        hi   == IF r100 % 100 = 0 THEN lo + 1 ELSE lo + 2
    IN  [lo |-> hi, hi |-> hi, frac100 |-> 0]

\* the sorted positions (1-based) a quantile interpolates between
QuantileBounds(p, n) ==
    LET r100 == p * (n - 1)
        lo   == r100 \div 100
    IN  [lo |-> lo + 1,
         hi |-> IF r100 % 100 = 0 THEN lo + 1 ELSE lo + 2,
         frac100 |-> r100 % 100]

\* Series.quantile(p / 100), interpolation='linear' (the default)
Quantile(lat, p) ==
    LET n == Len(lat)
        s == SortAsc(lat)
        b == QuantileBounds(p, n)
    IN  IF n = 0 THEN NaN
        ELSE Num(100 * s[b.lo] + (s[b.hi] - s[b.lo]) * b.frac100, 100)

(***************************************************************************)
(* print_statistics                                                        *)
(***************************************************************************)
\* the lines "Count" .. "P99"
Statistics(lat) ==
    [count  |-> Len(lat),
     mean   |-> Mean(lat),
     median |-> Median(lat),
     min    |-> Min(lat),
     max    |-> Max(lat),
     P50    |-> Quantile(lat, 50),
     P75    |-> Quantile(lat, 75),
     P90    |-> Quantile(lat, 90),
     P95    |-> Quantile(lat, 95),
     P99    |-> Quantile(lat, 99)]

\* the bucket table; the last bucket's max_lat is float('inf')
buckets ==
    << [min_lat |-> 0,    max_lat |-> 100,  inf |-> FALSE, label |-> "< 100ms"],
       [min_lat |-> 100,  max_lat |-> 200,  inf |-> FALSE, label |-> "100-200ms"],
       [min_lat |-> 200,  max_lat |-> 500,  inf |-> FALSE, label |-> "200-500ms"],
       [min_lat |-> 500,  max_lat |-> 1000, inf |-> FALSE, label |-> "500-1000ms"],
       [min_lat |-> 1000, max_lat |-> 1000, inf |-> TRUE,  label |-> "> 1000ms"] >>

InBucketClosed(l, b) == l >= b.min_lat /\ (b.inf \/ l <= b.max_lat)

\* (latencies >= min_lat) & (latencies < max_lat)
InBucket(l, b) == l >= b.min_lat /\ (b.inf \/ l < b.max_lat)

\* one printed bucket line; requires Len(lat) > 0
BucketLine(lat, b) ==
    LET count == Cardinality({i \in 1..Len(lat) : InBucket(lat[i], b)})
    IN  [label      |-> b.label,
         count      |-> count,
         percentage |-> Num(count * 100, Len(lat)),
         bar        |-> (count * 100) \div (2 * Len(lat))]

\* print_statistics(df[ds], name), continuing at pc = next when it returns.
\* Over an empty column the statistics print as nan and the first
\* count / len(latencies) raises ZeroDivisionError.
print_statistics(ds, next) ==
    LET latencies == LatencyColumn(df[ds])
    IN  /\ summary' = [summary EXCEPT ![ds] = <<Statistics(latencies)>>]
        /\ IF Len(latencies) = 0
           THEN /\ distribution' = distribution
                /\ error' = "ZeroDivisionError"
                /\ exit_status' = 1
                /\ pc' = "crashed"
           ELSE /\ distribution' = [distribution EXCEPT ![ds] =
                        [k \in 1..Len(buckets) |-> BucketLine(latencies, buckets[k])]]
                /\ error' = error
                /\ exit_status' = exit_status
                /\ pc' = next
        /\ UNCHANGED <<argc, files, df, histogram, series, groups, comparison, chart>>

(***************************************************************************)
(* plot_histogram                                                          *)
(***************************************************************************)
plot_histogram(ds, next) ==
    LET latencies == LatencyColumn(df[ds])
    IN  /\ histogram' = [histogram EXCEPT ![ds] =
                <<[mean   |-> Mean(latencies),
                   median |-> Median(latencies),
                   P95    |-> Quantile(latencies, 95)]>>]
        /\ pc' = next
        /\ UNCHANGED <<argc, files, df, summary, distribution, series, groups,
                       comparison, chart, error, exit_status>>

(***************************************************************************)
(* plot_time_series                                                        *)
(***************************************************************************)
window == 50

\* How the sort orders rows of equal Timestamp: in file order or in reverse.
\* sort_values uses an unstable sort, so either order may come out.
TieBreaks == {"first", "last"}

\* df.sort_values('Timestamp')
sort_values(rows, tie) ==
    LET n == Len(rows)
        Before(i, j) ==
            \/ rows[i].Timestamp < rows[j].Timestamp
            \/ /\ rows[i].Timestamp = rows[j].Timestamp
               /\ IF tie = "first" THEN i < j ELSE i > j
    IN  [k \in 1..n |->
            rows[CHOOSE i \in 1..n :
                    Cardinality({j \in 1..n : Before(j, i)}) = k - 1]]
        \o <<>>

\* a centred window: the value at i averages positions around i
rolling_mean_centred(lat, w) ==
    [i \in 1..Len(lat) |->
        IF i - (w \div 2) < 1 \/ i + (w - 1) - (w \div 2) > Len(lat) THEN NaN
        ELSE Num(RangeSum(lat, i - (w \div 2), i + (w - 1) - (w \div 2)), w)]

\* Series.rolling(window=w).mean(): NaN until w values are in the window
rolling_mean(lat, w) ==
    [i \in 1..Len(lat) |->
        IF i < w THEN NaN ELSE Num(RangeSum(lat, i - w + 1, i), w)]

\* the moving average is drawn only for a store of at least `window` rows
TimeSeries(rows, tie) ==
    LET df_sorted  == sort_values(rows, tie)
        n          == Len(df_sorted)
        start_time == IF n = 0 THEN 0
                      ELSE CHOOSE t \in {df_sorted[i].Timestamp : i \in 1..n} :
                               \A i \in 1..n : t <= df_sorted[i].Timestamp
        lat        == [i \in 1..n |-> df_sorted[i].Latency]
    IN  [relative_time |-> [i \in 1..n |->
                               Num(df_sorted[i].Timestamp - start_time, 1000)],
         latency       |-> lat,
         moving_avg    |-> IF n >= window THEN <<rolling_mean(lat, window)>>
                           ELSE <<>>]

plot_time_series(ds, next) ==
    \E tie \in TieBreaks :
        /\ series' = [series EXCEPT ![ds] = <<TimeSeries(df[ds].rows, tie)>>]
        /\ pc' = next
        /\ UNCHANGED <<argc, files, df, summary, distribution, histogram, groups,
                       comparison, chart, error, exit_status>>

(***************************************************************************)
(* plot_chat_distribution                                                  *)
(***************************************************************************)
RECURSIVE SetToSortedSeq(_)
SetToSortedSeq(S) ==
    IF S = {} THEN <<>>
    ELSE LET m == CHOOSE x \in S : \A y \in S : x <= y
         IN  <<m>> \o SetToSortedSeq(S \ {m})

\* the latencies of the rows whose Chat ID is chat_id, in row order
RECURSIVE LatenciesOf(_, _)
LatenciesOf(rows, chat_id) ==
    IF rows = <<>> THEN <<>>
    ELSE (IF Head(rows).ChatID = chat_id THEN <<Head(rows).Latency>> ELSE <<>>)
         \o LatenciesOf(Tail(rows), chat_id)

\* df.groupby('Chat ID')['Latency (ms)']: keys ascending; rows whose key is
\* an empty cell belong to no group (dropna=True is the default)
groupby(rows) ==
    LET keys == SetToSortedSeq({rows[i].ChatID : i \in 1..Len(rows)} \ {NoChat})
    IN  [k \in 1..Len(keys) |->
            [chat_id |-> keys[k], latencies |-> LatenciesOf(rows, keys[k])]]

plot_chat_distribution(ds, next) ==
    /\ groups' = [groups EXCEPT ![ds] = <<groupby(df[ds].rows)>>]
    /\ pc' = next
    /\ UNCHANGED <<argc, files, df, summary, distribution, histogram, series,
                   comparison, chart, error, exit_status>>

(***************************************************************************)
(* load_latency_data and main                                              *)
(***************************************************************************)
Unreadable == [readable |-> FALSE, hasChat |-> FALSE, rows |-> <<>>]

\* a CSV file that parses; without a 'Chat ID' column no row has a chat cell
File(hasChat, rows) ==
    [readable |-> TRUE,
     hasChat  |-> hasChat,
     rows     |-> IF hasChat THEN rows
                  ELSE [i \in 1..Len(rows) |-> [rows[i] EXCEPT !.ChatID = NoChat]]]

\* pd.read_csv, any exception turned into None
load_latency_data(file) ==
    IF file.readable
    THEN [loaded |-> TRUE, hasChat |-> file.hasChat, rows |-> file.rows]
    ELSE None

\* len(sys.argv) < 2: usage, sys.exit(1)
Usage ==
    /\ pc = "start"
    /\ argc < 2
    /\ pc' = "exited"
    /\ exit_status' = 1
    /\ UNCHANGED <<argc, files, df, summary, distribution, histogram, series,
                   groups, comparison, chart, error>>

LoadA2P ==
    /\ pc = "start"
    /\ argc >= 2
    /\ LET a2p_df == load_latency_data(files["a2p"])
       IN  /\ df' = [df EXCEPT !["a2p"] = a2p_df]
           /\ IF a2p_df = None
              THEN pc' = "exited" /\ exit_status' = 1
              ELSE pc' = "a2p_stats" /\ exit_status' = exit_status
    /\ UNCHANGED <<argc, files, summary, distribution, histogram, series,
                   groups, comparison, chart, error>>

StatsA2P == pc = "a2p_stats" /\ print_statistics("a2p", "a2p_hist")

HistogramA2P == pc = "a2p_hist" /\ plot_histogram("a2p", "a2p_series")

TimeSeriesA2P == pc = "a2p_series" /\ plot_time_series("a2p", "a2p_chat")

ChatA2P ==
    /\ pc = "a2p_chat"
    /\ IF df["a2p"].hasChat
       THEN plot_chat_distribution("a2p", "p2p_load")
       ELSE pc' = "p2p_load" /\ UNCHANGED <<argc, files, df, summary,
                distribution, histogram, series, groups, comparison, chart,
                error, exit_status>>

\* the comparison is printed right after the load, before the P2P summary
LoadP2PCompareFirst ==
    /\ pc = "p2p_load"
    /\ IF argc > 2
       THEN LET p2p_df == load_latency_data(files["p2p"])
            IN  /\ df' = [df EXCEPT !["p2p"] = p2p_df]
                /\ pc' = IF p2p_df # None THEN "compare" ELSE "complete"
       ELSE df' = df /\ pc' = "complete"
    /\ UNCHANGED <<argc, files, summary, distribution, histogram, series,
                   groups, comparison, chart, error, exit_status>>

LoadP2P ==
    /\ pc = "p2p_load"
    /\ IF argc > 2
       THEN LET p2p_df == load_latency_data(files["p2p"])
            IN  /\ df' = [df EXCEPT !["p2p"] = p2p_df]
                /\ pc' = IF p2p_df # None THEN "p2p_stats" ELSE "complete"
       ELSE df' = df /\ pc' = "complete"
    /\ UNCHANGED <<argc, files, summary, distribution, histogram, series,
                   groups, comparison, chart, error, exit_status>>

StatsP2P == pc = "p2p_stats" /\ print_statistics("p2p", "p2p_hist")

HistogramP2P == pc = "p2p_hist" /\ plot_histogram("p2p", "p2p_series")

TimeSeriesP2P == pc = "p2p_series" /\ plot_time_series("p2p", "p2p_chat")

ChatP2P ==
    /\ pc = "p2p_chat"
    /\ IF df["p2p"].hasChat
       THEN plot_chat_distribution("p2p", "compare")
       ELSE pc' = "compare" /\ UNCHANGED <<argc, files, df, summary,
                distribution, histogram, series, groups, comparison, chart,
                error, exit_status>>

\* the comparison line: difference, percentage and the dataset named faster
Comparison(a2p_mean, p2p_mean) ==
    LET difference == FAbs(FSub(a2p_mean, p2p_mean))
        percentage == FMulInt(FDiv(difference, PyMax(a2p_mean, p2p_mean)), 100)
    IN  [difference |-> difference,
         percentage |-> percentage,
         faster     |-> IF FLess(a2p_mean, p2p_mean) THEN "A2P" ELSE "P2P"]

Compare ==
    /\ pc = "compare"
    /\ comparison' = <<Comparison(Mean(LatencyColumn(df["a2p"])),
                                  Mean(LatencyColumn(df["p2p"])))>>
    /\ pc' = "plot_comparison"
    /\ UNCHANGED <<argc, files, df, summary, distribution, histogram, series,
                   groups, chart, error, exit_status>>

\* the bars of the key-metrics panel
Metrics(lat) == <<Mean(lat), Median(lat), Quantile(lat, 95), Quantile(lat, 99)>>

plot_comparison ==
    /\ pc = "plot_comparison"
    /\ chart' = <<[a2p_values |-> Metrics(LatencyColumn(df["a2p"])),
                   p2p_values |-> Metrics(LatencyColumn(df["p2p"]))]>>
    /\ pc' = "complete"
    /\ UNCHANGED <<argc, files, df, summary, distribution, histogram, series,
                   groups, comparison, error, exit_status>>

\* "Analysis complete!", and the script ends
Complete ==
    /\ pc = "complete"
    /\ pc' = "done"
    /\ exit_status' = 0
    /\ UNCHANGED <<argc, files, df, summary, distribution, histogram, series,
                   groups, comparison, chart, error>>

(***************************************************************************)
(* A run of main.                                                          *)
(***************************************************************************)
SeqsUpTo(S, n) == UNION {[1..k -> S] : k \in 0..n}

NoOutput == [ds \in Datasets |-> <<>>]

InitOutputs ==
    /\ summary = NoOutput
    /\ distribution = NoOutput
    /\ histogram = NoOutput
    /\ series = NoOutput
    /\ groups = NoOutput
    /\ comparison = <<>>
    /\ chart = <<>>
    /\ error = ""
    /\ exit_status = -1

MainRows == {Row(2000, 0, NoChat), Row(1000, 120, 1), Row(1000, 150, 2)}

MainFiles ==
    {Unreadable} \cup
    {File(h, r) : h \in BOOLEAN, r \in SeqsUpTo(MainRows, MaxRows)}

\* a file argument that is not given holds nothing
Init ==
    /\ argc \in 1..3
    /\ files \in [Datasets -> MainFiles]
    /\ argc < 2 => files["a2p"] = Unreadable
    /\ argc < 3 => files["p2p"] = Unreadable
    /\ df = [ds \in Datasets |-> None]
    /\ pc = "start"
    /\ InitOutputs

Next ==
    \/ Usage
    \/ LoadA2P
    \/ StatsA2P
    \/ HistogramA2P
    \/ TimeSeriesA2P
    \/ ChatA2P
    \/ LoadP2P
    \/ StatsP2P
    \/ HistogramP2P
    \/ TimeSeriesP2P
    \/ ChatP2P
    \/ Compare
    \/ plot_comparison
    \/ Complete

Spec == Init /\ [][Next]_vars

(***************************************************************************)
(* One call of one function on a loaded file.                              *)
(***************************************************************************)
InitCall(Files, at) ==
    /\ argc = 2
    /\ \E f \in Files :
          /\ files = [ds \in Datasets |-> IF ds = "a2p" THEN f ELSE Unreadable]
          /\ df = [ds \in Datasets |->
                     IF ds = "a2p" THEN load_latency_data(f) ELSE None]
    /\ pc = at
    /\ InitOutputs

\* rows whose latency at file position i is 10 * ((i * step) % 7), with the
\* timestamps in one of four file orders
PatternRow(i, n, order, step) ==
    Row(CASE order = "asc"     -> 1000 * i
          [] order = "desc"    -> 1000 * (n + 1 - i)
          [] order = "pairs"   -> 1000 * ((n + 2 - i) \div 2)
          [] order = "shuffle" -> 1000 * ((i * 7) % 59),
        10 * ((i * step) % 7),
        NoChat)

PatternFile(n, order, step) ==
    File(FALSE, [i \in 1..n |-> PatternRow(i, n, order, step)])

\* print_statistics: every short column over a few latencies around the
\* bucket edges (one of them negative), and some long patterned columns
StatsLatencies == {-5, 0, 99, 100, 250, 500, 1000}

StatsFiles ==
    {File(FALSE, [i \in 1..Len(l) |-> Row(i, l[i], NoChat)]) :
        l \in SeqsUpTo(StatsLatencies, MaxLen)}
    \cup {PatternFile(n, "asc", step) : n \in {21, 22, 101, 102}, step \in 1..MaxStep}

InitStats == InitCall(StatsFiles, "call_print_statistics")

CallPrintStatistics ==
    pc = "call_print_statistics" /\ print_statistics("a2p", "returned")

NextStats == CallPrintStatistics

SpecStats == InitStats /\ [][NextStats]_vars

\* plot_time_series: files of about `window` rows
SeriesFiles ==
    {PatternFile(n, order, step) :
        n \in (window - MaxExtra)..(window + MaxExtra),
        order \in {"asc", "desc", "pairs", "shuffle"},
        step \in 0..MaxStep}

InitSeries == InitCall(SeriesFiles, "call_plot_time_series")

CallPlotTimeSeries ==
    pc = "call_plot_time_series" /\ plot_time_series("a2p", "returned")

NextSeries == CallPlotTimeSeries

SpecSeries == InitSeries /\ [][NextSeries]_vars

\* plot_chat_distribution: files with a 'Chat ID' column
GroupRows == {Row(1000, l, c) : l \in {10, 20}, c \in {NoChat} \cup 1..MaxChats}

GroupFiles == {File(TRUE, r) : r \in SeqsUpTo(GroupRows, MaxGroupRows)}

InitGroups == InitCall(GroupFiles, "call_plot_chat_distribution")

CallPlotChatDistribution ==
    pc = "call_plot_chat_distribution" /\ plot_chat_distribution("a2p", "returned")

NextGroups == CallPlotChatDistribution

SpecGroups == InitGroups /\ [][NextGroups]_vars

(***************************************************************************)
(* Properties.                                                             *)
(***************************************************************************)
FLeq(a, b) == a.kind = "num" /\ b.kind = "num" /\ a.num * b.den <= b.num * a.den

FAdd(a, b) ==
    IF a.kind = "num" /\ b.kind = "num"
    THEN Num(a.num * b.den + b.num * a.den, a.den * b.den)
    ELSE NaN

RECURSIVE SumOver(_, _, _)
\* f[1] + .. + f[n] for the field of a sequence of records picked by Get
SumOver(Get(_), f, n) == IF n = 0 THEN 0 ELSE Get(f[n]) + SumOver(Get, f, n - 1)

RECURSIVE FSumOver(_, _, _)
FSumOver(Get(_), f, n) ==
    IF n = 0 THEN Num(0, 1) ELSE FAdd(Get(f[n]), FSumOver(Get, f, n - 1))

CountOf(line) == line.count
PercentageOf(line) == line.percentage

Returned == pc = "returned"
Latencies == LatencyColumn(df["a2p"])

\* C1: over a non-empty store whose latencies are all >= 0, every sample lies
\* in exactly one of the five default ranges (lower <= latency < upper), each
\* printed count is the number of samples in its range, the counts sum to the
\* number of samples and the percentages sum to 100.
C1_BucketsPartition ==
    (Returned /\ Len(Latencies) > 0 /\ \A i \in 1..Len(Latencies) : Latencies[i] >= 0)
    => LET d == distribution["a2p"]
           Within(l, k) == /\ buckets[k].min_lat <= l
                           /\ (k = Len(buckets) \/ l < buckets[k].max_lat)
       IN  /\ Len(d) = 5
           /\ \A i \in 1..Len(Latencies) :
                 Cardinality({k \in 1..Len(buckets) : Within(Latencies[i], k)}) = 1
           /\ \A k \in 1..Len(d) :
                 d[k].count =
                   Cardinality({i \in 1..Len(Latencies) : Within(Latencies[i], k)})
           /\ SumOver(CountOf, d, Len(d)) = Len(Latencies)
           /\ FSumOver(PercentageOf, d, Len(d)) = Num(100, 1)

\* a store with samples on a bucket edge and in several buckets was summarised
C1_Witness ==
    /\ Returned
    /\ Len(Latencies) >= 3
    /\ \A i \in 1..Len(Latencies) : Latencies[i] >= 0
    /\ \E i \in 1..Len(Latencies) : Latencies[i] = 100
    /\ distribution["a2p"][1].count > 0
    /\ distribution["a2p"][2].count > 0
    /\ distribution["a2p"][5].count > 0

\* C10: over a non-empty store, min <= P50 <= P95 <= P99 <= max and P50 is
\* the median.
C10_PercentilesOrdered ==
    (Returned /\ Len(Latencies) > 0)
    => LET st == summary["a2p"][1]
       IN  /\ FLeq(st.min, st.P50)
           /\ FLeq(st.P50, st.P95)
           /\ FLeq(st.P95, st.P99)
           /\ FLeq(st.P99, st.max)
           /\ st.P50 = st.median

\* an even-sized store whose P50, P95, P99 and max are all different and
\* whose P50 is a value between two samples
C10_Witness ==
    /\ Returned
    /\ Len(Latencies) >= 4
    /\ Len(Latencies) % 2 = 0
    /\ LET st == summary["a2p"][1]
       IN  /\ st.P50.den # 1
           /\ st.P50 # st.P95
           /\ st.P95 # st.P99
           /\ st.P99 # st.max
           /\ st.min # st.P50

\* C6: when the store has no sample, every bucket line reports percentage 0
\* and no division by zero happens.
C6_EmptyStoreZeroPercent ==
    (pc # "call_print_statistics" /\ Len(Latencies) = 0)
    => /\ error # "ZeroDivisionError"
       /\ Len(distribution["a2p"]) = Len(buckets)
       /\ \A k \in 1..Len(distribution["a2p"]) :
             distribution["a2p"][k].percentage = Num(0, 1)

\* C4: the trailing moving average of `window` rows over n rows in timestamp
\* order: for n < window none is produced; for n >= window exactly
\* n - window + 1 positions are defined, the positions window .. n (counted
\* from 1), each the mean of the `window` latencies ending at it.
C4_TrailingMovingAverage ==
    Returned
    => LET ts == series["a2p"][1]
           n  == Len(df["a2p"].rows)
       IN  /\ Len(ts.latency) = n
           /\ \A i \in 1..(n - 1) :
                 FLeq(ts.relative_time[i], ts.relative_time[i + 1])
           /\ n < window => ts.moving_avg = <<>>
           /\ n >= window =>
                 /\ Len(ts.moving_avg) = 1
                 /\ Len(ts.moving_avg[1]) = n
                 /\ {i \in 1..n : ts.moving_avg[1][i] # NaN} = window..n
                 /\ Cardinality({i \in 1..n : ts.moving_avg[1][i] # NaN})
                        = n - window + 1
                 /\ \A i \in window..n :
                       ts.moving_avg[1][i] =
                         Num(RangeSum(ts.latency, i - window + 1, i), window)

\* a file of more than `window` rows, not in timestamp order, whose moving
\* average takes different values at different positions
C4_Witness ==
    /\ Returned
    /\ Len(df["a2p"].rows) > window
    /\ df["a2p"].rows[1].Timestamp > df["a2p"].rows[2].Timestamp
    /\ series["a2p"][1].moving_avg # <<>>
    /\ series["a2p"][1].moving_avg[1][window]
          # series["a2p"][1].moving_avg[1][window + 1]

LatenciesOfGroup(g) == Len(g.latencies)

\* C7: the rows without a chat id are kept as one group of their own, so
\* the groups together hold every row of the store.
C7_NoGroupKept ==
    Returned
    => LET g == groups["a2p"][1]
           rows == df["a2p"].rows
       IN  /\ SumOver(LatenciesOfGroup, g, Len(g)) = Len(rows)
           /\ (\E i \in 1..Len(rows) : rows[i].ChatID = NoChat)
                 => \E k \in 1..Len(g) :
                       /\ g[k].chat_id = NoChat
                       /\ g[k].latencies = LatenciesOf(rows, NoChat)

MeanOf(ds) == Mean(LatencyColumn(df[ds]))

\* C2: the comparison names A faster when mean(a) < mean(b), B faster when
\* mean(a) > mean(b), and reports a tie when the means are equal.
C2_FasterOrTie ==
    comparison # <<>>
    => /\ FLess(MeanOf("a2p"), MeanOf("p2p")) => comparison[1].faster = "A2P"
       /\ FLess(MeanOf("p2p"), MeanOf("a2p")) => comparison[1].faster = "P2P"
       /\ MeanOf("a2p") = MeanOf("p2p") => comparison[1].faster = "Tie"

\* C3: comparing (a, b) and (b, a) gives the same difference and the same
\* percentage, and names the same dataset faster: the first of one order is
\* the second of the other.
C3_ComparisonSymmetric ==
    comparison # <<>>
    => LET ab == comparison[1]
           ba == Comparison(MeanOf("p2p"), MeanOf("a2p"))
       IN  /\ ab.difference = ba.difference
           /\ ab.percentage = ba.percentage
           /\ (ab.faster = "A2P") <=> (ba.faster = "P2P")
           /\ (ab.faster = "P2P") <=> (ba.faster = "A2P")

\* print_statistics has been called on the dataset
StatsCalled(ds) ==
    /\ df[ds].loaded
    /\ pc # (IF ds = "a2p" THEN "a2p_stats" ELSE "p2p_stats")

\* C5: once the summary of a loaded store without samples has been asked
\* for, the run has reported an EmptyDatasetError: no statistics were
\* printed for that store, no comparison was made, and no other error ended
\* the run.
C5_EmptyDatasetReported ==
    \A ds \in Datasets :
        (StatsCalled(ds) /\ Len(df[ds].rows) = 0)
        => /\ error = "EmptyDatasetError"
           /\ summary[ds] = <<>>
           /\ comparison = <<>>

Terminated == pc \in {"exited", "done", "crashed"}

NoAnalysis(ds) ==
    /\ summary[ds] = <<>>
    /\ distribution[ds] = <<>>
    /\ histogram[ds] = <<>>
    /\ series[ds] = <<>>
    /\ groups[ds] = <<>>

AllAnalyses(ds) ==
    /\ summary[ds] # <<>>
    /\ distribution[ds] # <<>>
    /\ histogram[ds] # <<>>
    /\ series[ds] # <<>>
    /\ df[ds].hasChat => groups[ds] # <<>>

\* C8: when the first file fails to load the run exits non-zero with no
\* analysis of either dataset; when it loads and the second file is not
\* given or fails to load, the run ends with every analysis of the first
\* dataset made, none of the second, no comparison, and a clean exit.
C8_LoadFailures ==
    /\ (pc # "start" /\ argc >= 2 /\ ~files["a2p"].readable)
         => /\ pc = "exited"
            /\ exit_status > 0
            /\ NoAnalysis("a2p") /\ NoAnalysis("p2p")
            /\ comparison = <<>> /\ chart = <<>>
    /\ (Terminated /\ df["a2p"].loaded /\ (argc < 3 \/ ~files["p2p"].readable))
         => /\ AllAnalyses("a2p")
            /\ NoAnalysis("p2p")
            /\ comparison = <<>> /\ chart = <<>>
            /\ pc = "done"
            /\ exit_status = 0

StatsDone(ds) == summary[ds] # <<>> /\ distribution[ds] # <<>>

\* C9: a comparison exists only if both datasets were loaded, and the step
\* that produces it starts from a state in which the summaries of both
\* datasets have already been produced.
C9_ComparisonAfterSummaries ==
    /\ [](comparison # <<>> =>
              /\ df["a2p"].loaded /\ df["p2p"].loaded
              /\ StatsDone("a2p") /\ StatsDone("p2p"))
    /\ [][(comparison = <<>> /\ comparison' # <<>>)
              => (StatsDone("a2p") /\ StatsDone("p2p"))]_vars

\* a run that printed a comparison
C9_Witness ==
    /\ comparison # <<>>
    /\ pc = "done"
    /\ StatsDone("a2p") /\ StatsDone("p2p")

=============================================================================
